---- MODULE Spec2Model ----
(***************************************************************************)
(* A model of the remote-monitoring server (server.py) and its interactive *)
(* client (client.py): one server session over one TCP connection.         *)
(*                                                                         *)
(* Text is modelled character by character: a str is a sequence of         *)
(* one-character strings, so that lower(), strip(), split(' ', 1),         *)
(* startswith() and os.path.abspath() are computed as Python computes them.*)
(* Fixed message texts are kept as one-element sequences holding the whole *)
(* message.                                                                *)
(***************************************************************************)
EXTENDS Integers, Sequences, FiniteSets, TLC

(***************************************************************************)
(* Bounds of the model.                                                    *)
(***************************************************************************)
\* Number of lines the user types at the client's prompt in one run.
MaxCmds == 2
\* Length of the freely chosen part of the operating system's process table.
MaxProcs == 1

(***************************************************************************)
(* Python str operations.                                                  *)
(***************************************************************************)
UpperCase == <<"A","B","C","D","E","F","G","H","I","J","K","L","M",
               "N","O","P","Q","R","S","T","U","V","W","X","Y","Z">>

LowerCase == <<"a","b","c","d","e","f","g","h","i","j","k","l","m",
               "n","o","p","q","r","s","t","u","v","w","x","y","z">>

\* The characters str.strip() removes.
Whitespace == {" ", "\t", "\n", "\r"}

LowerChar(c) ==
    IF \E i \in DOMAIN UpperCase : UpperCase[i] = c
    THEN LowerCase[CHOOSE i \in DOMAIN UpperCase : UpperCase[i] = c]
    ELSE c

\* str.lower()
lower(s) == [i \in 1..Len(s) |-> LowerChar(s[i])]

\* str.strip()
strip(s) ==
    LET keep == {i \in 1..Len(s) : s[i] \notin Whitespace}
    IN  IF keep = {} THEN <<>>
        ELSE LET lo == CHOOSE i \in keep : \A j \in keep : i <= j
                 hi == CHOOSE i \in keep : \A j \in keep : j <= i
             IN  SubSeq(s, lo, hi)

\* str.split(sep, 1): at most one split, at the first occurrence of sep.
split1(s, sep) ==
    LET at == {i \in 1..Len(s) : s[i] = sep}
    IN  IF at = {} THEN <<s>>
        ELSE LET k == CHOOSE i \in at : \A j \in at : i <= j
             IN  <<SubSeq(s, 1, k - 1), SubSeq(s, k + 1, Len(s))>>

\* str.split(sep): every occurrence of sep splits.
RECURSIVE split(_, _)
split(s, sep) ==
    LET parts == split1(s, sep)
    IN  IF Len(parts) = 1 THEN parts
        ELSE <<parts[1]>> \o split(parts[2], sep)

\* str.startswith(prefix)
startswith(s, prefix) ==
    /\ Len(prefix) <= Len(s)
    /\ SubSeq(s, 1, Len(prefix)) = prefix

(***************************************************************************)
(* os.path on a POSIX host.                                                *)
(***************************************************************************)
\* The server's working directory, the base every relative path resolves
\* against.
Cwd == <<"/","s","r","v">>

\* os.path.join(a, b): an absolute b discards a.
join(a, b) ==
    IF Len(b) > 0 /\ b[1] = "/" THEN b
    ELSE IF Len(a) > 0 /\ a[Len(a)] # "/" THEN a \o <<"/">> \o b
    ELSE a \o b

\* The component stack of os.path.normpath: empty and "." components are
\* dropped, ".." pops a component and is dropped at the root.
RECURSIVE Resolve(_, _)
Resolve(comps, stack) ==
    IF comps = <<>> THEN stack
    ELSE LET c == Head(comps)
         IN  IF c = <<>> \/ c = <<".">> THEN Resolve(Tail(comps), stack)
             ELSE IF c = <<".", ".">>
                  THEN Resolve(Tail(comps),
                               IF stack = <<>> THEN stack
                               ELSE SubSeq(stack, 1, Len(stack) - 1))
                  ELSE Resolve(Tail(comps), Append(stack, c))

RECURSIVE JoinComps(_)
JoinComps(comps) ==
    IF comps = <<>> THEN <<>>
    ELSE <<"/">> \o Head(comps) \o JoinComps(Tail(comps))

\* The components of the absolute, normalised form of path p.
Components(p) == Resolve(split(join(Cwd, p), "/"), <<>>)

\* os.path.abspath(p)
abspath(p) ==
    LET comps == Components(p)
    IN  IF comps = <<>> THEN <<"/">> ELSE JoinComps(comps)

(***************************************************************************)
(* Responses.  A handler returns a str: either a plain text or the JSON     *)
(* text of a payload.  The payload is kept structured: schema names the    *)
(* handler that built it, path/contents are listdir's keys, procs are the  *)
(* entries of processes.                                                   *)
(***************************************************************************)
Text(t) ==
    [kind |-> "text", text |-> t, schema |-> "", path |-> <<>>,
     contents |-> <<>>, procs |-> <<>>]

Json(schema, path, contents, procs) ==
    [kind |-> "json", text |-> <<>>, schema |-> schema, path |-> path,
     contents |-> contents, procs |-> procs]

\* What a recv() on a connection the peer has closed returns: b''.
EmptyResp == Text(<<>>)

\* send_command's return value when the socket call raised.
NoneResp ==
    [kind |-> "none", text |-> <<>>, schema |-> "", path |-> <<>>,
     contents |-> <<>>, procs |-> <<>>]

InvalidCommand == Text(<<"Invalid command. Use 'help' to see available commands.">>)

ShuttingDown == Text(<<"Server shutting down...">>)

AccessDenied == Text(<<"Access denied. Path not in allowed directories.">>)

ErrorListing == Text(<<"Error listing directory: ">>)

\* The number of characters of one element of a text: a fixed message
\* counts with its length ("Server time: " with the 19 characters of the
\* timestamp behind it, the system information with a nominal 120 for the
\* four lines of the template), anything else is a single character.
frag_len(f) ==
    CASE f = "Invalid command. Use 'help' to see available commands." -> 54
      [] f = "Server shutting down..." -> 23
      [] f = "Access denied. Path not in allowed directories." -> 47
      [] f = "Error listing directory: " -> 25
      [] f = "Echo: " -> 6
      [] f = "Server time: " -> 13 + 19
      [] f = "System Information:" -> 120
      [] OTHER -> 1

RECURSIVE text_len(_)
text_len(t) == IF t = <<>> THEN 0 ELSE frag_len(Head(t)) + text_len(Tail(t))

RECURSIVE names_len(_)
names_len(names) ==
    IF names = <<>> THEN 0 ELSE Len(Head(names)) + 8 + names_len(Tail(names))

\* len(response.encode()): the bytes the server writes for a response.  The
\* JSON text of listdir is measured as json.dumps(..., indent=2) lays it
\* out; the payloads of the metric handlers, whose values are not modelled,
\* count with a nominal size per entry.
wire_len(r) ==
    IF r.kind # "json" THEN text_len(r.text)
    ELSE IF r.schema = "listdir"
         THEN 17 + Len(r.path)
                 + (IF r.contents = <<>> THEN 17
                    ELSE 19 + names_len(r.contents))
    ELSE IF r.schema = "processes" THEN 4 + 100 * Len(r.procs)
    ELSE IF r.schema = "diskspace" THEN 4 + 120 * Len(r.contents)
    ELSE 300

(***************************************************************************)
(* The host the server runs on: directories and processes.                 *)
(***************************************************************************)
\* self.allowed_dirs
allowed_dirs == << <<".","/","s","h","a","r","e","d">>,
                  <<".","/","d","o","w","n","l","o","a","d","s">> >>

\* The directories that exist on the host and what os.listdir returns for
\* each; setup_directories has created the two allowed ones.
\* The listing of a directory that holds many files with long names.
Digit == <<"0","1","2","3","4","5","6","7","8","9">>

BigListing ==
    [i \in 1..60 |->
        [j \in 1..61 |-> "f"] \o
        <<Digit[((i \div 10) % 10) + 1], Digit[(i % 10) + 1]>>]

FileSystem ==
    { [dir |-> <<"/","s","r","v">>,
       entries |-> <<<<"d","o","w","n","l","o","a","d","s">>, <<"s","e","r","v","e","r",".","p","y">>, <<"s","h","a","r","e","d">>, <<"s","h","a","r","e","d","_","o","t","h","e","r">>>>],
      [dir |-> <<"/","s","r","v","/","s","h","a","r","e","d">>,
       entries |-> <<<<"D","o","c","s">>, <<"a",".","t","x","t">>>>],
      [dir |-> <<"/","s","r","v","/","s","h","a","r","e","d","/","D","o","c","s">>,
       entries |-> <<<<"r","e","p","o","r","t",".","t","x","t">>>>],
      [dir |-> <<"/","s","r","v","/","d","o","w","n","l","o","a","d","s">>,
       entries |-> <<<<"b","i","g">>>>],
      [dir |-> <<"/","s","r","v","/","d","o","w","n","l","o","a","d","s","/","b","i","g">>,
       entries |-> BigListing],
      [dir |-> <<"/","s","r","v","/","s","h","a","r","e","d","_","o","t","h","e","r">>,
       entries |-> <<<<"s","e","c","r","e","t",".","t","x","t">>>>] }

isdir(d) == \E e \in FileSystem : e.dir = d

\* os.listdir(d) of an existing directory d.
listdir(d) == (CHOOSE e \in FileSystem : e.dir = d).entries

\* memory_percent of a process whose attributes could not be read: psutil
\* fills the info dict with None.
NoneVal == -1

\* One row of the operating system's process table at the time of the scan.
ProcRow ==
    [status : {"ok"}, mem : {1, 7}] \cup [status : {"denied", "gone"}, mem : {0}]

\* Ten more accessible processes that all use the same share of memory.
Filler == [i \in 1..10 |-> [status |-> "ok", mem |-> 5]]

RECURSIVE SeqsUpTo(_, _)
SeqsUpTo(S, n) ==
    IF n = 0 THEN {<<>>}
    ELSE LET shorter == SeqsUpTo(S, n - 1)
         IN  shorter \cup {Append(t, x) : t \in shorter, x \in S}

ProcTables ==
    LET free == SeqsUpTo(ProcRow, MaxProcs)
    IN  free \cup {t \o Filler : t \in free}

\* What can go wrong in the introspection provider while one command is
\* served: nothing, a call that raises, a mount point whose usage query
\* raises.
Faults == {"none", "provider", "mount"}

(***************************************************************************)
(* The command handlers of RemoteServer.  A handler's outcome is the str   *)
(* it returns, whether it ran cleanup(), and whether it raised instead of  *)
(* returning.                                                              *)
(***************************************************************************)
Returns(r) == [response |-> r, cleanup |-> FALSE, raised |-> FALSE]

Raises == [response |-> NoneResp, cleanup |-> FALSE, raised |-> TRUE]

kw_sysinfo == <<"s","y","s","i","n","f","o">>

kw_time == <<"t","i","m","e">>

kw_echo == <<"e","c","h","o">>

kw_exit == <<"e","x","i","t">>

kw_cpu == <<"c","p","u">>

kw_memory == <<"m","e","m","o","r","y">>

kw_processes == <<"p","r","o","c","e","s","s","e","s">>

kw_netstat == <<"n","e","t","s","t","a","t">>

kw_listdir == <<"l","i","s","t","d","i","r">>

kw_diskspace == <<"d","i","s","k","s","p","a","c","e">>

\* The keys of the commands dictionary.
commands ==
    {kw_sysinfo, kw_time, kw_echo, kw_exit, kw_cpu, kw_memory, kw_processes,
     kw_netstat, kw_listdir, kw_diskspace}

get_system_info(args) == Returns(Text(<<"System Information:">>))

get_time(args) == Returns(Text(<<"Server time: ">>))

echo_message(message) == Returns(Text(<<"Echo: ">> \o message))

\* An exit handler that acknowledges and leaves the sockets alone.
exit_connection_no_cleanup(args) ==
    [response |-> ShuttingDown, cleanup |-> FALSE, raised |-> FALSE]

\* cleanup() runs first, the acknowledgment is only returned afterwards.
exit_connection(args) ==
    [response |-> ShuttingDown, cleanup |-> TRUE, raised |-> FALSE]

get_cpu_info(args, fault) ==
    IF fault = "provider" THEN Raises
    ELSE Returns(Json("cpu", <<>>, <<>>, <<>>))

get_memory_info(args, fault) ==
    IF fault = "provider" THEN Raises
    ELSE Returns(Json("memory", <<>>, <<>>, <<>>))

get_network_stats(args, fault) ==
    IF fault = "provider" THEN Raises
    ELSE Returns(Json("netstat", <<>>, <<>>, <<>>))

\* psutil.process_iter(['pid', 'name', 'memory_percent']): one Process per
\* row in pid order; a vanished process is not yielded, an inaccessible one
\* is yielded with None for what could not be read.
RECURSIVE process_iter_from(_, _)
process_iter_from(table, i) ==
    IF i > Len(table) THEN <<>>
    ELSE LET row  == table[i]
             info == [pid |-> i, name |-> "proc",
                      memory_percent |->
                          IF row.status = "ok" THEN row.mem ELSE NoneVal]
         IN  (IF row.status = "gone" THEN <<>> ELSE <<info>>)
                 \o process_iter_from(table, i + 1)

process_iter(table) == process_iter_from(table, 1)

\* key=lambda x: x.info['memory_percent'] or 0
sort_key(info) ==
    IF info.memory_percent = NoneVal THEN 0 ELSE info.memory_percent

\* One step of a stable descending sort: x, which comes later in the input
\* than every entry of done, goes behind the entries whose key is not
\* smaller than its own.
RECURSIVE insert_sorted(_, _)
insert_sorted(done, x) ==
    IF done = <<>> THEN <<x>>
    ELSE IF sort_key(Head(done)) >= sort_key(x)
         THEN <<Head(done)>> \o insert_sorted(Tail(done), x)
         ELSE <<x>> \o done

\* sorted(seq, key=sort_key, reverse=True): a stable sort, so entries with
\* equal keys keep their order in seq.
RECURSIVE sorted_reverse(_)
sorted_reverse(seq) ==
    IF seq = <<>> THEN <<>>
    ELSE insert_sorted(sorted_reverse(SubSeq(seq, 1, Len(seq) - 1)),
                       seq[Len(seq)])

\* The slice [:10] of get_running_processes.
TopN == 10

get_running_processes(args, table, fault) ==
    IF fault = "provider" THEN Raises
    ELSE LET ordered == sorted_reverse(process_iter(table))
             top     == SubSeq(ordered, 1,
                               IF Len(ordered) < TopN THEN Len(ordered) ELSE TopN)
         IN  Returns(Json("processes", <<>>, <<>>, top))

\* The path test of list_directory.
path_allowed(requested_path) ==
    \E k \in DOMAIN allowed_dirs :
        startswith(requested_path, abspath(allowed_dirs[k]))

list_directory(path, fault) ==
    LET requested_path == abspath(join(<<".">>, strip(path)))
    IN  IF ~path_allowed(requested_path) THEN Returns(AccessDenied)
        ELSE IF fault = "provider" \/ ~isdir(requested_path)
             THEN Returns(ErrorListing)
             ELSE Returns(Json("listdir", requested_path,
                               listdir(requested_path), <<>>))

\* disk_partitions() raising is not caught; a mount point whose disk_usage
\* raises is left out of the mapping.
get_disk_space(args, fault) ==
    IF fault = "provider" THEN Raises
    ELSE IF fault = "mount" THEN Returns(Json("diskspace", <<>>, <<"/">>, <<>>))
    ELSE Returns(Json("diskspace", <<>>, <<"/", "/mnt">>, <<>>))

\* command.strip().lower() of process_command.
normalize(command) == lower(strip(command))

\* cmd_parts[0]
cmd_of(command) == split1(normalize(command), " ")[1]

\* cmd_parts[1] if len(cmd_parts) > 1 else ''
args_of(command) ==
    LET cmd_parts == split1(normalize(command), " ")
    IN  IF Len(cmd_parts) > 1 THEN cmd_parts[2] ELSE <<>>

\* A lookup commands[cmd] that is not guarded by "if cmd in commands" raises
\* KeyError for an unknown keyword.
invalid_command_unguarded(cmd) == Raises

\* The return that follows "if cmd in commands".
invalid_command(cmd) == Returns(InvalidCommand)

process_command(command, table, fault) ==
    LET cmd  == cmd_of(command)
        args == args_of(command)
    IN  IF cmd \notin commands THEN invalid_command(cmd)
        ELSE IF cmd = kw_sysinfo   THEN get_system_info(args)
        ELSE IF cmd = kw_time      THEN get_time(args)
        ELSE IF cmd = kw_echo      THEN echo_message(args)
        ELSE IF cmd = kw_exit      THEN exit_connection(args)
        ELSE IF cmd = kw_cpu       THEN get_cpu_info(args, fault)
        ELSE IF cmd = kw_memory    THEN get_memory_info(args, fault)
        ELSE IF cmd = kw_processes THEN get_running_processes(args, table, fault)
        ELSE IF cmd = kw_netstat   THEN get_network_stats(args, fault)
        ELSE IF cmd = kw_listdir   THEN list_directory(args, fault)
        ELSE get_disk_space(args, fault)

(***************************************************************************)
(* The lines the user may type at the client's prompt.                     *)
(***************************************************************************)
Lines ==
    { <<>>,
      <<" ">>,
      <<"e","x","i","t">>,
      <<"E","X","I","T">>,
      <<"e","x","i","t"," ","n","o","w">>,
      <<"h","e","l","p">>,
      <<"e","c","h","o">>,
      <<"e","c","h","o"," ","h","i">>,
      <<"e","c","h","o"," ","H","i">>,
      <<"e","c","h","o"," "," ","a"," ","b">>,
      <<"e","c","h","o","\t","h","i">>,
      <<"s","y","s","i","n","f","o">>,
      <<"t","i","m","e">>,
      <<"c","p","u">>,
      <<"m","e","m","o","r","y">>,
      <<"n","e","t","s","t","a","t">>,
      <<"d","i","s","k","s","p","a","c","e">>,
      <<"p","r","o","c","e","s","s","e","s">>,
      <<"P","r","o","c","e","s","s","e","s">>,
      <<"l","i","s","t","d","i","r">>,
      <<"l","i","s","t","d","i","r"," ","s","h","a","r","e","d">>,
      <<"l","i","s","t","d","i","r"," ","s","h","a","r","e","d","/","D","o","c","s">>,
      <<"l","i","s","t","d","i","r"," ","s","h","a","r","e","d","/",".",".">>,
      <<"l","i","s","t","d","i","r"," ",".",".","/","e","t","c">>,
      <<"l","i","s","t","d","i","r"," ","s","h","a","r","e","d","_","o","t","h","e","r">>,
      <<"l","i","s","t","d","i","r"," ","d","o","w","n","l","o","a","d","s">>,
      <<"l","i","s","t","d","i","r"," ","d","o","w","n","l","o","a","d","s","/","b","i","g">>,
      <<"l","i","s","t","d","i","r"," ","/","s","r","v","/","s","h","a","r","e","d">> }

(***************************************************************************)
(* State.                                                                  *)
(***************************************************************************)
VARIABLES
    spc,         \* server: "init", "accept", "recv", "send", "finally", "done"
    listenSock,  \* self.socket of the server: "none", "open", "closed"
    connSock,    \* self.client of the server: "none", "open", "closed"
    data,        \* the command read in this pass of the server's loop
    response,    \* the str process_command returned for it
    fault,       \* what went wrong in the provider while it was served
    table,       \* the process table scanned while it was served
    nAccepted,   \* connections accepted so far
    nRead,       \* commands read so far
    nWritten,    \* responses written to the connection so far
    cpc,         \* client: "start", "prompt", "wait", "done"
    csock,       \* self.socket of the client: "none", "created", "open", "closed"
    command,     \* the command the client sent last
    cresp,       \* what send_command returned for it
    typed,       \* the line input() returned last, before strip()
    rendered,    \* what format_response printed for the last command
    cend,        \* how the loop of start_client was left
    nTyped,      \* lines typed at the prompt so far
    nSent,       \* commands handed to send() so far
    nAnswered,   \* send_command calls that have returned so far
    pending,     \* a connection waits in the listen queue
    c2s,         \* bytes in flight from client to server
    s2c,         \* responses in flight from server to client
    rst,         \* the client has sent into a connection the server closed
    s2cSeq,      \* for each response in flight, the read it answers
    s2cOff,      \* bytes of the first response in flight already received
    oversize     \* a response longer than the client's read was written

svars == <<spc, listenSock, connSock, data, response, fault, table,
           nAccepted, nRead, nWritten>>

cvars == <<cpc, csock, command, cresp, nTyped, nSent, nAnswered, typed,
           rendered, cend>>

nvars == <<pending, c2s, s2c, rst, s2cSeq, s2cOff, oversize>>

vars == <<svars, cvars, nvars>>

\* RemoteServer.__init__ and RemoteClient.__init__
Init ==
    /\ spc = "init" /\ listenSock = "none" /\ connSock = "none"
    /\ data = <<>> /\ response = NoneResp /\ fault = "none" /\ table = <<>>
    /\ nAccepted = 0 /\ nRead = 0 /\ nWritten = 0
    /\ cpc = "start" /\ csock = "none" /\ command = <<>> /\ cresp = NoneResp
    /\ nTyped = 0 /\ nSent = 0 /\ nAnswered = 0
    /\ typed = <<>> /\ rendered = "none" /\ cend = "running"
    /\ pending = FALSE /\ c2s = <<>> /\ s2c = <<>> /\ rst = FALSE
    /\ s2cSeq = <<>> /\ s2cOff = 0 /\ oversize = FALSE

\* socket.close() through "if self.x: self.x.close()": a socket that was
\* never created stays None, any other ends closed.
closed(sock) == IF sock = "none" THEN "none" ELSE "closed"

\* The server's end of the connection is gone, as the client's socket sees
\* it.
ServerGone ==
    \/ connSock = "closed"
    \/ connSock = "none" /\ listenSock = "closed"

\* A read no longer than the shortest keyword.
ShortRead == Len(kw_exit)

\* The size of the server's read.
ServerBuf == 1024

\* The size of the client's read.
ClientBuf == 4096

\* recv(n) on a byte stream: at most n of the bytes that have arrived.
take(stream, n) == SubSeq(stream, 1, IF Len(stream) < n THEN Len(stream) ELSE n)

drop(stream, n) == SubSeq(stream, (IF Len(stream) < n THEN Len(stream) ELSE n) + 1, Len(stream))

(***************************************************************************)
(* RemoteServer.                                                           *)
(***************************************************************************)
\* start_server up to listen(): the socket is created, then bind/listen
\* either succeed or raise into the except/finally of start_server.
start_server(ok) ==
    /\ spc = "init"
    /\ listenSock' = "open"
    /\ spc' = IF ok THEN "accept" ELSE "finally"
    /\ UNCHANGED <<connSock, data, response, fault, table, nAccepted, nRead,
                   nWritten>>
    /\ UNCHANGED <<cvars, nvars>>

\* self.socket.accept(): blocks until a connection waits in the listen
\* queue, then start_server calls handle_client.
accept ==
    /\ spc = "accept"
    /\ pending
    /\ pending' = FALSE
    /\ connSock' = "open"
    /\ nAccepted' = nAccepted + 1
    /\ spc' = "recv"
    /\ UNCHANGED <<listenSock, data, response, fault, table, nRead, nWritten>>
    /\ UNCHANGED <<cvars, c2s, s2c, rst, s2cSeq, s2cOff, oversize>>

\* An exception of accept() that passes by the finally clause.
accept_fails_uncaught ==
    /\ spc = "accept"
    /\ spc' = "done"
    /\ UNCHANGED <<listenSock, connSock, data, response, fault, table,
                   nAccepted, nRead, nWritten>>
    /\ UNCHANGED <<cvars, nvars>>

\* self.socket.accept() raising.
accept_fails ==
    /\ spc = "accept"
    /\ spc' = "finally"
    /\ UNCHANGED <<listenSock, connSock, data, response, fault, table,
                   nAccepted, nRead, nWritten>>
    /\ UNCHANGED <<cvars, nvars>>

\* The inputs of the provider that a command can depend on.
TablesFor(line) == IF cmd_of(line) = kw_processes THEN ProcTables ELSE {<<>>}

FaultsFor(line) ==
    IF cmd_of(line) \in {kw_cpu, kw_memory, kw_processes, kw_netstat, kw_listdir}
    THEN {"none", "provider"}
    ELSE IF cmd_of(line) = kw_diskspace THEN Faults
    ELSE {"none"}

\* handle_client, from recv() to the return of process_command: a command
\* has arrived.  An exception out of the handler is caught by handle_client,
\* which leaves the loop; exit_connection closes both sockets before it
\* returns.
handle_client_recv ==
    /\ spc = "recv"
    /\ c2s # <<>>
    /\ LET line == take(c2s, ServerBuf)
       IN  \E t \in TablesFor(line), f \in FaultsFor(line) :
             LET out == process_command(line, t, f)
             IN  /\ data' = line
                 /\ c2s' = drop(c2s, ServerBuf)
                 /\ table' = t
                 /\ fault' = f
                 /\ nRead' = nRead + 1
                 /\ response' = out.response
                 /\ spc' = IF out.raised THEN "finally" ELSE "send"
                 /\ connSock' = IF out.cleanup THEN closed(connSock) ELSE connSock
                 /\ listenSock' = IF out.cleanup THEN closed(listenSock) ELSE listenSock
    /\ UNCHANGED <<nAccepted, nWritten>>
    /\ UNCHANGED <<cvars, pending, s2c, rst, s2cSeq, s2cOff, oversize>>

\* handle_client: recv() returns b'' or raises ConnectionResetError because
\* the client has closed its socket; either way the loop is left.
handle_client_eof ==
    /\ spc = "recv"
    /\ c2s = <<>>
    /\ csock = "closed"
    /\ spc' = "finally"
    /\ UNCHANGED <<listenSock, connSock, data, response, fault, table,
                   nAccepted, nRead, nWritten>>
    /\ UNCHANGED <<cvars, nvars>>

\* handle_client: self.client.send(response.encode()).  On a socket that
\* cleanup() has closed send raises, which handle_client catches to leave
\* the loop.  On an open socket the bytes are written; they reach the client
\* unless it has closed its socket.  The pass of the loop is over then, and
\* the next pass starts without its locals.
handle_client_send ==
    /\ spc = "send"
    /\ IF connSock = "open"
       THEN /\ s2c' = IF csock = "open" THEN Append(s2c, response) ELSE s2c
            /\ s2cSeq' = IF csock = "open" THEN Append(s2cSeq, nRead) ELSE s2cSeq
            /\ oversize' = (oversize \/ wire_len(response) > ClientBuf)
            /\ nWritten' = nWritten + 1
            /\ spc' = "recv"
            /\ data' = <<>> /\ response' = NoneResp
            /\ fault' = "none" /\ table' = <<>>
       ELSE /\ spc' = "finally"
            /\ UNCHANGED <<s2c, s2cSeq, oversize, nWritten, data, response,
                           fault, table>>
    /\ UNCHANGED <<listenSock, connSock, nAccepted, nRead>>
    /\ UNCHANGED <<cvars, pending, c2s, rst, s2cOff>>

\* A server that goes back to accept() once a session has ended.
cleanup_and_listen_again ==
    /\ spc = "finally"
    /\ connSock' = closed(connSock)
    /\ spc' = "accept"
    /\ UNCHANGED <<listenSock, data, response, fault, table, nAccepted, nRead,
                   nWritten>>
    /\ UNCHANGED <<cvars, nvars>>

\* The finally clause of start_server: cleanup().
cleanup ==
    /\ spc = "finally"
    /\ connSock' = closed(connSock)
    /\ listenSock' = closed(listenSock)
    /\ spc' = "done"
    /\ UNCHANGED <<data, response, fault, table, nAccepted, nRead, nWritten>>
    /\ UNCHANGED <<cvars, nvars>>

(***************************************************************************)
(* RemoteClient.                                                           *)
(***************************************************************************)
\* connect(): succeeds when the server listens; otherwise start_client
\* returns at once.
connect ==
    /\ cpc = "start"
    /\ IF spc = "accept" /\ listenSock = "open"
       THEN /\ csock' = "open"
            /\ pending' = TRUE
            /\ cpc' = "prompt"
       ELSE /\ csock' = "created"
            /\ cpc' = "done"
            /\ UNCHANGED pending
    /\ UNCHANGED <<command, cresp, nTyped, nSent, nAnswered, typed, rendered,
                   cend>>
    /\ UNCHANGED <<svars, c2s, s2c, rst, s2cSeq, s2cOff, oversize>>

\* "if response:" of start_client: None and '' are skipped.
truthy(resp) == resp.kind # "none" /\ resp # EmptyResp

\* json.loads(response) succeeds: the response is one whole JSON text.  The
\* plain messages of the server, and pieces of responses, are not JSON.
decodes(resp) == resp.kind = "json"

Printed(mode) == [mode |-> mode, raised |-> FALSE]

\* An exception other than json.JSONDecodeError leaves format_response.
RendererRaises == [mode |-> "none", raised |-> TRUE]

\* A renderer without the fallback for text that is not JSON.
format_response_no_fallback(cmd, resp) ==
    IF ~decodes(resp) THEN RendererRaises ELSE Printed("dump")

\* format_response(command, response): what is printed under "Server
\* response:".  The branch is chosen by command.startswith on the command
\* as it was typed.  The table formats p.get('memory_percent', 0) with
\* ":.1f", which raises TypeError for None; data['path'] and p['pid'] raise
\* when the decoded value is of another shape.
format_response(cmd, resp) ==
    IF ~decodes(resp) THEN Printed("raw")
    ELSE IF startswith(cmd, kw_processes)
         THEN IF resp.schema = "processes"
              THEN IF \E i \in DOMAIN resp.procs :
                          resp.procs[i].memory_percent = NoneVal
                   THEN RendererRaises
                   ELSE Printed("table")
              ELSE IF resp.schema = "diskspace" /\ resp.contents = <<>>
                   THEN Printed("table")
                   ELSE RendererRaises
    ELSE IF \E kw \in {kw_cpu, kw_memory, kw_netstat, kw_diskspace} :
                startswith(cmd, kw)
         THEN Printed("dump")
    ELSE IF startswith(cmd, kw_listdir)
         THEN IF resp.schema = "listdir" THEN Printed("listing")
              ELSE RendererRaises
    ELSE Printed("raw")

\* RemoteClient.cleanup(): "if self.socket: self.socket.close()".
client_cleanup(sock) == IF sock = "none" THEN "none" ELSE "closed"

\* The end of one pass of the loop of start_client, after send_command has
\* returned: a response that is not empty is rendered; an exception out of
\* the renderer leaves the loop through the finally clause; "exit" leaves
\* the loop, and the finally clause closes the socket.
after_command(cmd, resp) ==
    LET out == IF truthy(resp) THEN format_response(cmd, resp)
               ELSE Printed("none")
    IN  /\ rendered' = out.mode
        /\ IF out.raised
           THEN /\ cpc' = "done" /\ cend' = "error"
                /\ csock' = client_cleanup(csock)
           ELSE IF lower(cmd) = kw_exit
           THEN /\ cpc' = "done" /\ cend' = "exit"
                /\ csock' = client_cleanup(csock)
           ELSE cpc' = "prompt" /\ UNCHANGED <<csock, cend>>

\* A prompt that takes the line as it was typed.
input_line_raw(line) == line

\* input(...).strip() of start_client.
input_line(line) == strip(line)

\* One line typed at the prompt.  An empty line prompts again.  Otherwise
\* send_command sends it: send() raises once the connection is known to be
\* broken, and send_command returns None; else the bytes leave, and are lost
\* when the server's end is gone.
start_client_input(line) ==
    /\ cpc = "prompt"
    /\ nTyped < MaxCmds
    /\ nTyped' = nTyped + 1
    /\ typed' = line
    /\ IF input_line(line) = <<>>
       THEN UNCHANGED <<cpc, csock, command, cresp, nSent, nAnswered,
                        rendered, cend, c2s, rst>>
       ELSE /\ command' = input_line(line)
            /\ nSent' = nSent + 1
            /\ IF rst
               THEN /\ cresp' = NoneResp
                    /\ nAnswered' = nAnswered + 1
                    /\ after_command(input_line(line), NoneResp)
                    /\ UNCHANGED <<c2s, rst>>
               ELSE /\ cpc' = "wait"
                    /\ cresp' = NoneResp
                    /\ rendered' = "none"
                    /\ c2s' = IF ServerGone THEN c2s ELSE c2s \o input_line(line)
                    /\ rst' = ServerGone
                    /\ UNCHANGED <<csock, nAnswered, cend>>
    /\ UNCHANGED <<svars, pending, s2c, s2cSeq, s2cOff, oversize>>

\* The bytes of the responses in flight that the client has not received.
RECURSIVE in_flight(_, _)
in_flight(queue, off) ==
    IF queue = <<>> THEN 0
    ELSE wire_len(Head(queue)) - off + in_flight(Tail(queue), 0)

\* The responses in flight, and the offset into the first, once n bytes
\* have been received.
RECURSIVE consume(_, _, _)
consume(queue, off, n) ==
    IF queue = <<>> THEN [queue |-> <<>>, off |-> 0, whole |-> 0]
    ELSE IF n >= wire_len(Head(queue)) - off
         THEN LET rest == consume(Tail(queue), 0, n - (wire_len(Head(queue)) - off))
              IN  [rest EXCEPT !.whole = @ + 1]
    ELSE [queue |-> queue, off |-> off + n, whole |-> 0]

\* A str that is a piece of a response, or several responses run together.
Fragment ==
    [kind |-> "part", text |-> <<>>, schema |-> "", path |-> <<>>,
     contents |-> <<>>, procs |-> <<>>]

\* recv(4096) when bytes have arrived: all of them, up to 4096.  They are
\* one response when they end where the first response in flight ends.
recv_bytes == IF in_flight(s2c, s2cOff) < ClientBuf THEN in_flight(s2c, s2cOff)
              ELSE ClientBuf

recv_str ==
    IF s2cOff = 0 /\ recv_bytes = wire_len(Head(s2c)) THEN Head(s2c)
    ELSE Fragment

\* What recv(4096) of send_command can give: the bytes that have arrived,
\* or, once the server's end is gone, b''; the connection is reset instead
\* when the client has sent bytes that the server did not read any more.
Received ==
    IF s2c # <<>> THEN {recv_str}
    ELSE IF ServerGone
         THEN {EmptyResp} \cup (IF rst \/ c2s # <<>> THEN {NoneResp} ELSE {})
    ELSE {}

\* send_command returns and the pass of the loop ends.
start_client_recv ==
    /\ cpc = "wait"
    /\ \E r \in Received :
         /\ cresp' = r
         /\ after_command(command, r)
    /\ IF s2c # <<>>
       THEN LET left == consume(s2c, s2cOff, recv_bytes)
            IN  /\ s2c' = left.queue
                /\ s2cSeq' = SubSeq(s2cSeq, Len(s2cSeq) - Len(left.queue) + 1,
                                    Len(s2cSeq))
                /\ s2cOff' = left.off
       ELSE UNCHANGED <<s2c, s2cSeq, s2cOff>>
    /\ nAnswered' = nAnswered + 1
    /\ UNCHANGED <<command, nTyped, nSent, typed>>
    /\ UNCHANGED <<svars, pending, c2s, rst, oversize>>

\* An interrupt that ends the loop with the socket left as it is.
interrupt_without_finally ==
    /\ cpc \in {"prompt", "wait"}
    /\ cpc' = "done"
    /\ cend' = "interrupt"
    /\ UNCHANGED <<csock, command, cresp, nTyped, nSent, nAnswered, typed,
                   rendered>>
    /\ UNCHANGED <<svars, nvars>>

\* KeyboardInterrupt at the prompt or inside send_command: the loop is left
\* and the finally clause closes the socket.
interrupt ==
    /\ cpc \in {"prompt", "wait"}
    /\ cpc' = "done"
    /\ csock' = client_cleanup(csock)
    /\ cend' = "interrupt"
    /\ UNCHANGED <<command, cresp, nTyped, nSent, nAnswered, typed, rendered>>
    /\ UNCHANGED <<svars, nvars>>

Next ==
    \/ \E ok \in BOOLEAN : start_server(ok)
    \/ accept
    \/ accept_fails
    \/ handle_client_recv
    \/ handle_client_eof
    \/ handle_client_send
    \/ cleanup
    \/ connect
    \/ \E line \in Lines : start_client_input(line)
    \/ start_client_recv
    \/ interrupt

Spec == Init /\ [][Next]_vars

(***************************************************************************)
(* Properties.                                                             *)
(***************************************************************************)
\* The server has dispatched an exit command.  (No response is written for
\* it, so the locals of that pass of the loop stay.)
ExitProcessed == nRead > 0 /\ cmd_of(data) = kw_exit

\* The states of the server session of the design.
SessionState ==
    IF spc \in {"init", "accept"} THEN "Listening"
    ELSE IF spc \in {"recv", "send"} /\ connSock = "open" THEN "Connected"
    ELSE "Closed"

StateRank(st) == IF st = "Listening" THEN 0 ELSE IF st = "Connected" THEN 1 ELSE 2

\* A response that carries something to show.
HasContent(r) == r.kind \in {"text", "json"} /\ r # EmptyResp

\* The line as the client sent it: the keyword in any letter case, and the
\* text behind the first space, untouched.
sent_keyword(line) == lower(split1(line, " ")[1])

sent_argument(line) ==
    LET parts == split1(line, " ")
    IN  IF Len(parts) > 1 THEN parts[2] ELSE <<>>

\* The canonical form of a listdir argument p, as components, and the test
\* that it is an allowed root or lies below one, component by component.
canonical(p) == Components(join(<<".">>, strip(p)))

is_prefix(a, c) == Len(a) <= Len(c) /\ SubSeq(c, 1, Len(a)) = a

UnderAllowedRoot(p) ==
    \E k \in DOMAIN allowed_dirs :
        is_prefix(Components(allowed_dirs[k]), canonical(p))

\* C1: when exit is dispatched, the acknowledgment "Server shutting down..."
\* is written to the client before the connection socket is closed, and the
\* client's read after sending exit returns it.
C1_AckBeforeClose ==
    /\ (ExitProcessed /\ connSock = "closed") => nWritten = nRead
    /\ (ExitProcessed /\ nSent = nRead /\ nAnswered = nSent)
           => cresp = ShuttingDown

C3_DeniedOutsideRoots ==
    (spc = "send" /\ cmd_of(data) = kw_listdir /\ ~UnderAllowedRoot(args_of(data)))
        => response = AccessDenied

\* C4: echo <text> is answered with "Echo: " followed by <text> exactly as
\* the client sent it.
C4_EchoVerbatim ==
    (spc = "send" /\ sent_keyword(data) = kw_echo)
        => response = Text(<<"Echo: ">> \o sent_argument(data))

\* C5: listdir p for an existing directory p below an allowed root, in any
\* spelling the client sends, is answered with the canonical path of p and
\* the entries of that very directory in listing order.
C5_ListsThatDirectory ==
    LET p == sent_argument(data)
        d == abspath(join(<<".">>, strip(p)))
    IN  (/\ spc = "send" /\ sent_keyword(data) = kw_listdir /\ fault = "none"
         /\ UnderAllowedRoot(p) /\ isdir(d))
            => response = Json("listdir", d, listdir(d), <<>>)

\* The keyword of a received line as the design defines it: the text before
\* the first whitespace character, in lower case.
RECURSIVE upto_whitespace(_)
upto_whitespace(s) ==
    IF s = <<>> \/ Head(s) \in Whitespace THEN <<>>
    ELSE <<Head(s)>> \o upto_whitespace(Tail(s))

keyword(line) == lower(upto_whitespace(strip(line)))

\* C6: a line whose keyword is not registered is answered with the fixed
\* "Invalid command" message, written to the connection, and the server
\* stays connected with both sockets open, back at its read.
C6_UnknownKeepsSession ==
    /\ []((spc = "send" /\ keyword(data) \notin commands) =>
             /\ response = InvalidCommand
             /\ connSock = "open" /\ listenSock = "open")
    /\ [][/\ (nRead' # nRead /\ keyword(data') \notin commands) => spc' = "send"
          /\ (spc = "send" /\ keyword(data) \notin commands /\ spc' # spc) =>
                /\ spc' = "recv" /\ SessionState' = "Connected"
                /\ nWritten' = nWritten + 1
                /\ connSock' = "open" /\ listenSock' = "open"
                /\ (csock = "open" => s2c' = Append(s2c, InvalidCommand))]_vars

\* C6 witness: the client holds the "Invalid command" message and the server
\* is connected and reading again.
C6_Witness ==
    /\ cresp = InvalidCommand /\ nAnswered = nSent
    /\ spc = "recv" /\ connSock = "open" /\ listenSock = "open"

\* C7: a failure of an introspection call inside a handler does not end the
\* session: the server has a response for the command and stays connected.
C7_FailureContained ==
    fault # "none" =>
        /\ spc = "send" /\ connSock = "open"
        /\ HasContent(response)

\* C8: the session goes Listening -> Connected -> Closed and never back; at
\* most one connection is accepted; a zero-length read while Connected
\* closes the session; Closed is terminal: nothing is accepted, read or
\* written after it.
C8_Lifecycle ==
    /\ [](nAccepted <= 1)
    /\ [][/\ StateRank(SessionState') >= StateRank(SessionState)
          /\ (SessionState = "Closed" =>
                /\ nAccepted' = nAccepted /\ nRead' = nRead
                /\ nWritten' = nWritten /\ Len(s2c') <= Len(s2c)
                /\ Len(c2s') >= Len(c2s))
          /\ (SessionState = "Connected" /\ spc = "recv" /\ c2s = <<>>
                /\ spc' # spc) => SessionState' = "Closed"]_vars

\* C8 witness: a session that served a command, then read zero bytes and
\* ended with everything released.
C8_Witness ==
    /\ spc = "done" /\ nAccepted = 1 /\ nWritten > 0 /\ data = <<>>
    /\ connSock = "closed" /\ listenSock = "closed"

\* C9: every command the client sent and the server read gets a non-empty
\* response back to the client.
C9_EveryCommandAnswered ==
    (nSent > 0 /\ nRead = nSent /\ nAnswered = nSent) => HasContent(cresp)

\* C10: processes returns at most 10 entries, each a map with pid, name and
\* memory_percent, which are the accessible processes of the scan with the
\* highest memory percent, in descending order, ties in scan order;
\* vanished and inaccessible processes are left out.
C10_TopTenByMemory ==
    LET r       == response.procs
        shown   == {r[i].pid : i \in DOMAIN r}
        usable  == {i \in DOMAIN table : table[i].status = "ok"}
        ahead(i, j) ==
            \/ table[i].mem > table[j].mem
            \/ table[i].mem = table[j].mem /\ i < j
    IN  (spc = "send" /\ cmd_of(data) = kw_processes) =>
            /\ Len(r) <= TopN
            /\ \A i \in DOMAIN r :
                  /\ DOMAIN r[i] = {"pid", "name", "memory_percent"}
                  /\ r[i].pid \in usable
                  /\ r[i].memory_percent = table[r[i].pid].mem
            /\ Cardinality(shown) = Len(r)
            /\ Len(r) = IF Cardinality(usable) < TopN
                        THEN Cardinality(usable) ELSE TopN
            /\ \A i, j \in DOMAIN r : i < j => ahead(r[i].pid, r[j].pid)
            /\ \A i \in shown, j \in usable \ shown : ahead(i, j)

\* The line consists of whitespace only.
blank(line) == \A i \in DOMAIN line : line[i] \in Whitespace

\* No entry of a processes payload lacks its memory percent.
AllMeasured(r) == \A i \in DOMAIN r.procs : r.procs[i].memory_percent # NoneVal

\* The rendering the design assigns to a decoded response, by the keyword
\* of the command in lower case.
mode_of(kw) ==
    IF kw = kw_processes THEN "table"
    ELSE IF kw \in {kw_cpu, kw_memory, kw_netstat, kw_diskspace} THEN "dump"
    ELSE IF kw = kw_listdir THEN "listing"
    ELSE "raw"

\* C11: the rendering of a response that decodes as JSON is determined by
\* the keyword of the command, in any letter case, as the server reads it:
\* a table for processes, a dump for cpu, memory, netstat and diskspace, a
\* listing for listdir; so every line the server dispatches to processes or
\* listdir and answers with a payload is shown as a table or a listing.
C11_RenderedByKeyword ==
    (/\ nSent > 0 /\ nAnswered = nSent /\ ~oversize
     /\ cresp.kind = "json" /\ AllMeasured(cresp))
        => rendered = mode_of(cmd_of(command))

\* C12: a line that is empty or holds only whitespace causes no interaction
\* with the server: nothing is sent or read, the connection and the state
\* of the server stay as they are, nothing is rendered, and the client is
\* at its prompt again.
C12_BlankLineNoInteraction ==
    [][(nTyped' # nTyped /\ blank(typed')) =>
          /\ UNCHANGED <<svars, nvars>>
          /\ nSent' = nSent /\ nAnswered' = nAnswered
          /\ command' = command /\ cresp' = cresp /\ rendered' = rendered
          /\ csock' = csock /\ cend' = cend
          /\ cpc' = "prompt"]_vars

\* C12 witness: a line of one space was typed after a command had been
\* served; the second line was not sent and the session is still open.
C12_Witness ==
    /\ typed = <<" ">> /\ nTyped = 2 /\ nSent = 1 /\ nRead = 1
    /\ cpc = "prompt" /\ spc = "recv" /\ connSock = "open" /\ c2s = <<>>

\* C13: a response that is no JSON text is shown as it was received and
\* never ends the client: the renderer does not raise, and the loop goes on
\* to the next prompt (unless the command was exit).
C13_UndecodableShownRaw ==
    [][(nAnswered' # nAnswered /\ truthy(cresp') /\ cresp'.kind # "json") =>
          /\ rendered' = "raw"
          /\ cend' # "error"
          /\ (lower(command') # kw_exit =>
                 cpc' = "prompt" /\ csock' = csock /\ cend' = "running")]_vars

\* C13 witness: listdir was refused with the plain "Access denied" message,
\* which the client showed raw before prompting again.
C13_Witness ==
    /\ cresp = AccessDenied /\ startswith(command, kw_listdir)
    /\ rendered = "raw" /\ cpc = "prompt" /\ csock = "open"

\* C14: once the loop of the client has started, every way it ends (exit,
\* an interrupt, an exception out of the loop) runs cleanup, after which
\* the socket of the client is closed and stays closed; running cleanup
\* again changes nothing.
C14_ClientCleanup ==
    /\ []((cend # "running") <=> (cpc = "done" /\ csock = "closed"))
    /\ [](client_cleanup(client_cleanup(csock)) = client_cleanup(csock))
    /\ [][/\ (cpc \in {"prompt", "wait"} /\ cpc' = "done") =>
                /\ csock' = "closed"
                /\ cend' \in {"exit", "interrupt", "error"}
          /\ (csock = "closed" => csock' = "closed")]_vars

\* C14 witness: the loop was left by an exception out of the renderer and
\* the socket is closed.
C14_Witness == cend = "error" /\ cpc = "done" /\ csock = "closed"

\* C15: an exception while the server reads, dispatches or answers a
\* command ends the session and nothing else: the loop is left for the
\* finally clause only, where cleanup can always run and leaves both sockets
\* closed (or never created); the server ends with no socket open; cleanup
\* on sockets that exit has closed already changes nothing; and after a
\* failed bind, listen or accept no connection is accepted or served.
C15_ServerAlwaysCleansUp ==
    /\ [](spc = "finally" => ENABLED cleanup)
    /\ [](spc = "done" => connSock # "open" /\ listenSock # "open")
    /\ []((spc \in {"finally", "done"} /\ nAccepted = 0) => connSock = "none")
    /\ [][/\ (spc \in {"recv", "send"} /\ spc' \notin {"recv", "send"}) =>
                spc' = "finally"
          /\ (spc' = "done") => spc \in {"finally", "done"}
          /\ (spc = "finally" /\ spc' # spc) =>
                /\ spc' = "done"
                /\ connSock' = closed(connSock)
                /\ listenSock' = closed(listenSock)
                /\ (connSock = "closed" => connSock' = connSock)
                /\ (listenSock = "closed" => listenSock' = listenSock)
          /\ (spc \in {"finally", "done"}) =>
                /\ nAccepted' = nAccepted /\ nRead' = nRead
                /\ nWritten' = nWritten
                /\ SessionState' = "Closed"
          /\ (spc = "done" => UNCHANGED svars)]_vars

\* C15 witness: a handler raised while a command was served; the session
\* was closed through the finally clause and both sockets are closed.
C15_Witness ==
    /\ fault # "none" /\ nRead = 1 /\ nWritten = 0 /\ spc = "done"
    /\ connSock = "closed" /\ listenSock = "closed"

\* The text behind the first run of whitespace of a stripped line.
RECURSIVE lstrip(_)
lstrip(s) == IF s # <<>> /\ Head(s) \in Whitespace THEN lstrip(Tail(s)) ELSE s

after_keyword(line) ==
    LET t == strip(line)
    IN  lstrip(SubSeq(t, Len(upto_whitespace(t)) + 1, Len(t)))

\* C16: the server splits a received line at its first run of whitespace:
\* the keyword is the text before the run in lower case and holds no
\* whitespace character; the argument is the text behind the run.
C16_SplitAtWhitespaceRun ==
    (spc = "send") =>
        /\ \A i \in DOMAIN cmd_of(data) : cmd_of(data)[i] \notin Whitespace
        /\ cmd_of(data) = keyword(data)
        /\ args_of(data) = lower(after_keyword(data))

\* C17: while every response fits the read of the client, requests and
\* responses stay paired: the k-th command the server reads is the k-th the
\* client sent, the response written for it is the one process_command
\* gave, and what the client renders after its k-th command is that whole
\* response, with nothing left in flight behind it.
C17_ExchangesPaired ==
    [][~oversize =>
          /\ (nRead' # nRead => data' = command /\ nRead' = nSent)
          /\ (nWritten' # nWritten /\ csock = "open") =>
                /\ response = process_command(data, table, fault).response
                /\ s2c' = Append(s2c, response)
                /\ s2cSeq' = Append(s2cSeq, nRead)
          /\ (nAnswered' # nAnswered /\ truthy(cresp')) =>
                /\ s2c # <<>> /\ cresp' = Head(s2c)
                /\ Head(s2cSeq) = nSent
                /\ rendered' # "none" \/ cend' = "error"
                /\ s2c' = <<>> /\ s2cOff' = 0]_vars

\* C17 witness: two commands were sent, read and answered, and the client
\* has rendered the response to the second.
C17_Witness ==
    /\ ~oversize /\ nSent = 2 /\ nRead = 2 /\ nWritten = 2 /\ nAnswered = 2
    /\ truthy(cresp) /\ rendered # "none" /\ s2c = <<>>

\* C18: when the server has torn the session down because the line it read
\* dispatches to exit, the client that sent the line leaves its loop and
\* cleans up once that exchange is over.
C18_ExitAgreed ==
    (ExitProcessed /\ nSent = nRead /\ nAnswered = nSent)
        => (cpc = "done" /\ cend = "exit" /\ csock = "closed")

\* C19: the loop of the client ends only on the line exit, in any letter
\* case, or on an interrupt; when the server closes the session for another
\* reason the client goes on: each later command gets an empty or None
\* response, nothing is rendered, and the client prompts again.
C19_EndsOnlyOnExitOrInterrupt ==
    /\ cend \in {"running", "exit", "interrupt"}
    /\ cend = "exit" => lower(command) = kw_exit
    /\ (/\ ~oversize /\ ServerGone /\ ~ExitProcessed /\ nSent > nRead
        /\ nAnswered = nSent /\ cend # "interrupt"
        /\ lower(command) # kw_exit)
           => /\ cresp \in {EmptyResp, NoneResp}
              /\ rendered = "none"
              /\ cpc = "prompt" /\ cend = "running"

\* C20: no response the server produces for a command makes the renderer
\* raise; a processes payload is rendered as a table even when an entry has
\* no memory percent, so the loop of the client is never ended by rendering.
C20_RendererNeverRaises ==
    ~oversize =>
        /\ cend # "error"
        /\ (/\ nSent > 0 /\ nAnswered = nSent /\ cmd_of(command) = kw_processes
            /\ startswith(command, kw_processes) /\ cresp.kind = "json")
               => rendered = "table"

====
